---- MODULE Spec2Model ----
(***************************************************************************)
(* A model of geo/geodriver.py (class GeoDriver): one GeoDriver object,    *)
(* the gdal dataset it wraps, and the calls a client makes on it.          *)
(*                                                                         *)
(* Conventions.                                                            *)
(*  - Python's None is the empty tuple <<>>; a present value v of an       *)
(*    optional field is kept as it is (a record or a non-empty tuple).     *)
(*  - Python tuples and numpy arrays are TLA+ sequences, so Python index k *)
(*    is TLA+ index k+1.  A 2-D array is a sequence of rows.               *)
(*  - Coordinates are integers (floats that are exactly representable).    *)
(*    Values that the code halves (known_x, the anchor) are kept doubled.  *)
(*  - The cell (r, c) of the dataset holds the value <<r, c>>, its own     *)
(*    0-based source index, so that a returned array tells which source    *)
(*    cells it was copied from.                                            *)
(***************************************************************************)
EXTENDS Integers, Sequences, FiniteSets, TLC

VARIABLES
    ds,              \* self.ds: the gdal dataset handle (a record), or None
    nx,              \* self.nx
    ny,              \* self.ny
    gt,              \* self.gt: the 6-tuple geotransform
    projstr,         \* self.projstr: the +proj family of the CRS
    projwrf,         \* self.projwrf: the WPS projection tag
    reproj,          \* self.reproj: the needs-reprojection flag
    resample_indxs,  \* self.resample_indxs: None or (i_min,i_max,j_min,j_max)
    bbox,            \* the lon/lat bounding box of the job: the bbox argument
    lastOp,          \* the call that was made last
    withBBox,        \* whether that call was given the bbox
    exc,             \* "" when the call returned, else the exception it raised
    ret,             \* what the call returned (None when it raised)
    cropped,         \* the array the last successful resample_bbox returned
    crops,           \* the successful crops of this object: "none", "one", "many"
    prevIndex        \* what the call before the last returned, when that call
                     \* was geogrid_index, else None

vars == <<ds, nx, ny, gt, projstr, projwrf, reproj, resample_indxs, bbox,
          lastOp, withBBox, exc, ret, cropped, crops, prevIndex>>

None == <<>>

(***************************************************************************)
(* Bounds of the model.                                                    *)
(***************************************************************************)
\* rasters have 1..MaxN columns and 1..MaxN rows
MaxN == 3

Min2(a, b) == IF a <= b THEN a ELSE b

SetMin(S) == CHOOSE m \in S : \A k \in S : m <= k

SetMax(S) == CHOOSE m \in S : \A k \in S : k <= m

(***************************************************************************)
(* numpy                                                                   *)
(***************************************************************************)
\* ceil(a / b) for b # 0
CeilDiv(a, b) == IF b > 0 THEN 0 - ((0 - a) \div b) ELSE 0 - (a \div (0 - b))

\* Arange with the stop value included, as np.linspace includes its endpoint
Arange_endpoint(start, stop, step) ==
    LET n == CeilDiv(stop - start, step) + 1
    IN  IF n > 0 THEN [k \in 1..n |-> start + (k - 1) * step] ELSE <<>>

\* np.arange(start, stop, step): ceil((stop - start)/step) values from start
Arange(start, stop, step) ==
    LET n == CeilDiv(stop - start, step)
    IN  IF n > 0 THEN [k \in 1..n |-> start + (k - 1) * step] ELSE <<>>

\* np.meshgrid(xx, yy): X[r][c] = xx[c] and Y[r][c] = yy[r], len(yy) rows
MeshX(xx, yy) == [r \in 1..Len(yy) |-> xx]

MeshY(xx, yy) == [r \in 1..Len(yy) |-> [c \in 1..Len(xx) |-> yy[r]]]

\* s[lo:hi] for 0 <= lo, hi: the elements of index lo .. min(hi, len) - 1
Slice1(s, lo, hi) ==
    LET l == Min2(lo, Len(s))
        h == Min2(hi, Len(s))
    IN  IF h > l THEN [k \in 1..(h - l) |-> s[l + k]] ELSE <<>>

\* A[i_lo:i_hi, j_lo:j_hi]: the first pair slices the rows (axis 0), the
\* second pair slices the columns (axis 1)
Slice2(A, i_lo, i_hi, j_lo, j_hi) ==
    LET rows == Slice1(A, i_lo, i_hi)
    IN  [r \in 1..Len(rows) |-> Slice1(rows[r], j_lo, j_hi)]

\* A.shape of a 2-D array, as <<rows, columns>>
Shape(A) == <<Len(A), IF Len(A) = 0 THEN 0 ELSE Len(A[1])>>

\* A.size = 0: indexing A[0,0] raises IndexError
IsEmpty2(A) == Len(A) = 0 \/ Len(A[1]) = 0

\* np.where(cond)[0] over a 1-D array: the 0-based indices where P holds
WhereGE(lo, s) == {k \in 0..(Len(s) - 1) : lo <= s[k + 1]}

WhereLE(s, hi) == {k \in 0..(Len(s) - 1) : s[k + 1] <= hi}

\* A[:,0]: the first column
Col0(A) == [r \in 1..Len(A) |-> A[r][1]]

(***************************************************************************)
(* pyproj, gdal                                                            *)
(***************************************************************************)
\* the CRS's false easting and northing: the projection from lon/lat to the
\* raster's coordinates is a shift, its inverse the opposite shift
FalseEasting == 1

FalseNorthing == 2

\* pyproj.transform(ref_proj, self.pyproj, lon, lat)
ToProj(lon, lat) == <<lon + FalseEasting, lat + FalseNorthing>>

\* pyproj.transform(self.pyproj, ref_proj, x, y) on doubled coordinates
ToLonLat2(x2, y2) == <<x2 - 2 * FalseEasting, y2 - 2 * FalseNorthing>>

\* gdal.ApplyGeoTransform(gt, pixel, line), with pixel and line doubled and
\* the result doubled
ApplyGeoTransform2(g, pixel2, line2) ==
    <<2 * g[1] + pixel2 * g[2] + line2 * g[3],
      2 * g[4] + pixel2 * g[5] + line2 * g[6]>>

\* ds.ReadAsArray(): RasterYSize rows of RasterXSize cells
ReadAsArray(d) ==
    [r \in 1..d.RasterYSize |-> [c \in 1..d.RasterXSize |-> <<r - 1, c - 1>>]]

(***************************************************************************)
(* class GeoDriver                                                         *)
(***************************************************************************)
\* the object's fields, as one record
Self ==
    [ds |-> ds, nx |-> nx, ny |-> ny, gt |-> gt, projstr |-> projstr,
     projwrf |-> projwrf, reproj |-> reproj, resample_indxs |-> resample_indxs]

\* the outcome of a call: the exception raised ("" when it returned), the
\* value returned, the object's fields as the call leaves them, what the call
\* handed to a file or to the geogrid writer (out), and the array that
\* resample_bbox returned inside the call (crop)
Return(value, self) ==
    [exc |-> "", ret |-> value, self |-> self, out |-> None, crop |-> None]

Raise(name, self) ==
    [exc |-> name, ret |-> None, self |-> self, out |-> None, crop |-> None]

\* the dict literal of init_proj, entry by entry in source order
ProjWrfTable ==
    << <<"lcc", "lambert">>,
       <<"stere", "polar">>,
       <<"merc", "mercator">>,
       <<"latlong", "regular_ll">>,
       <<"aea", "albers_nad83">>,
       <<"stere", "polar_wgs84">> >>

\* the entries of a dict literal holding key: a later entry replaces an
\* earlier one with the same key
DictEntries(table, key) == {k \in 1..Len(table) : table[k][1] = key}

DictHas(table, key) == DictEntries(table, key) # {}

DictGet(table, key) == table[SetMax(DictEntries(table, key))][2]

\* init_proj that falls back to lambert without setting the flag
init_proj_noflag(d) ==
    IF DictHas(ProjWrfTable, d.proj)
    THEN [gt |-> d.GeoTransform, projstr |-> d.proj,
          projwrf |-> DictGet(ProjWrfTable, d.proj), reproj |-> FALSE]
    ELSE [gt |-> d.GeoTransform, projstr |-> d.proj,
          projwrf |-> "lambert", reproj |-> FALSE]

\* init_proj: the fields it derives from the dataset d
init_proj(d) ==
    IF DictHas(ProjWrfTable, d.proj)
    THEN [gt |-> d.GeoTransform, projstr |-> d.proj,
          projwrf |-> DictGet(ProjWrfTable, d.proj), reproj |-> FALSE]
    ELSE [gt |-> d.GeoTransform, projstr |-> d.proj,
          projwrf |-> "lambert", reproj |-> TRUE]

\* __init__(gdal_ds): the fields of the new object
Construct(d) ==
    LET p == init_proj(d)
    IN  [ds |-> d, nx |-> d.RasterXSize, ny |-> d.RasterYSize, gt |-> p.gt,
         projstr |-> p.projstr, projwrf |-> p.projwrf, reproj |-> p.reproj,
         resample_indxs |-> None]

\* get_coord: the grids X and Y
get_coord(self) ==
    LET x0 == self.gt[1]
        dx == self.gt[2]
        y0 == self.gt[4]
        dy == self.gt[6]
        xx == Arange(x0, x0 + dx * self.nx, dx)
        yy == Arange(y0, y0 + dy * self.ny, dy)
        X  == MeshX(xx, yy)
        Y  == MeshY(xx, yy)
    IN  IF self.resample_indxs # None
        THEN LET i_min == self.resample_indxs[1]
                 i_max == self.resample_indxs[2]
                 j_min == self.resample_indxs[3]
                 j_max == self.resample_indxs[4]
             IN  [X |-> Slice2(X, i_min, i_max, j_min, j_max),
                  Y |-> Slice2(Y, i_min, i_max, j_min, j_max)]
        ELSE [X |-> X, Y |-> Y]

\* CropToWindow that keeps the origin of the grid it was given
CropToWindow_oldorigin(self, X, Y, i_min, i_max, j_min, j_max) ==
    LET dx    == self.gt[2]
        dy    == self.gt[6]
        self1 == [self EXCEPT !.resample_indxs = <<i_min, i_max, j_min, j_max>>]
        X_r   == Slice2(X, i_min, i_max, j_min, j_max)
    IN  IF self.ds = None
        THEN Raise("AttributeError", self1)
        ELSE LET a_r == Slice2(ReadAsArray(self.ds), i_min, i_max, j_min, j_max)
             IN  IF IsEmpty2(X_r)
                 THEN Raise("IndexError", self1)
                 ELSE [Return(a_r,
                         [self1 EXCEPT
                            !.gt = <<X[1][1], dx, 0, Y[1][1], 0, dy>>,
                            !.ny = Shape(X_r)[1],
                            !.nx = Shape(X_r)[2]])
                       EXCEPT !.crop = a_r]

\* resample_bbox, lines 136-146: the window is saved, the grids and the array
\* are sliced, and the transform and the dimensions are updated
CropToWindow(self, X, Y, i_min, i_max, j_min, j_max) ==
    LET dx    == self.gt[2]
        dy    == self.gt[6]
        self1 == [self EXCEPT !.resample_indxs = <<i_min, i_max, j_min, j_max>>]
        X_r   == Slice2(X, i_min, i_max, j_min, j_max)
        Y_r   == Slice2(Y, i_min, i_max, j_min, j_max)
    IN  IF self.ds = None
        THEN Raise("AttributeError", self1)
        ELSE LET a_r == Slice2(ReadAsArray(self.ds), i_min, i_max, j_min, j_max)
             IN  IF IsEmpty2(X_r)
                 THEN Raise("IndexError", self1)
                 ELSE [Return(a_r,
                         [self1 EXCEPT
                            !.gt = <<X_r[1][1], dx, 0, Y_r[1][1], 0, dy>>,
                            !.ny = Shape(X_r)[1],
                            !.nx = Shape(X_r)[2]])
                       EXCEPT !.crop = a_r]

\* resample_bbox, lines 127-134: the row search on Y[:,0]
RowSearch(self, X, Y, i_min, i_max, y_min, y_max) ==
    LET dy     == self.gt[6]
        j_mins == WhereGE(y_min, Col0(Y))
        j_maxs == WhereLE(Col0(Y), y_max)
    IN  IF Len(Y[1]) = 0
        THEN Raise("IndexError", self)
        ELSE IF j_mins = {} \/ j_maxs = {}
        THEN Raise("ValueError", self)
        ELSE IF dy > 0
        THEN CropToWindow(self, X, Y, i_min, i_max, SetMin(j_mins), SetMax(j_maxs))
        ELSE CropToWindow(self, X, Y, i_min, i_max, SetMin(j_maxs), SetMax(j_mins))

\* resample_bbox, lines 119-126: the column search on X[0]
ColumnSearch(self, X, Y, x_min, x_max, y_min, y_max) ==
    LET dx     == self.gt[2]
        i_mins == WhereGE(x_min, X[1])
        i_maxs == WhereLE(X[1], x_max)
    IN  IF Len(X) = 0
        THEN Raise("IndexError", self)
        ELSE IF i_mins = {} \/ i_maxs = {}
        THEN Raise("ValueError", self)
        ELSE IF dx > 0
        THEN RowSearch(self, X, Y, SetMin(i_mins), SetMax(i_maxs), y_min, y_max)
        ELSE RowSearch(self, X, Y, SetMin(i_maxs), SetMax(i_mins), y_min, y_max)

\* resample_bbox(bbox), bbox = (lon_min, lon_max, lat_min, lat_max)
resample_bbox(self, b) ==
    LET lo == ToProj(b[1], b[3])
        hi == ToProj(b[2], b[4])
        g  == get_coord(self)
    IN  ColumnSearch(self, g.X, g.Y, lo[1], hi[1], lo[2], hi[2])

\* get_array(resample): resample is None or a bbox
get_array(self, resample) ==
    IF resample # None
    THEN resample_bbox(self, resample)
    ELSE IF self.ds = None
    THEN Raise("AttributeError", self)
    ELSE Return(ReadAsArray(self.ds), self)

\* what gdal.Info(None) can end in: the binding rejects the null dataset, or
\* returns None and the .split on it fails
GdalInfoNoneErrors == {"ValueError", "AttributeError"}

\* geogrid_index: the Dict it returns; infoErr is how gdal.Info ends on a
\* closed dataset
geogrid_index(self, infoErr) ==
    LET dx           == self.gt[2]
        dy           == self.gt[6]
        known_x2     == self.nx + 1
        known_y2     == self.ny + 1
        known_x_uns2 == known_x2 - 1
        known_y_uns2 == known_y2 - 1
        pos2         == ApplyGeoTransform2(self.gt, known_x_uns2, known_y_uns2)
        known2       == ToLonLat2(pos2[1], pos2[2])
    IN  IF self.ds = None
        THEN Raise(infoErr, self)
        ELSE Return([projection |-> self.projwrf,
                     dx         |-> dx,
                     dy         |-> dy,
                     known_x2   |-> known_x2,
                     known_y2   |-> known_y2,
                     known_lon2 |-> known2[1],
                     known_lat2 |-> known2[2],
                     row_order  |-> IF dy > 0 THEN "bottom_top" ELSE "top_bottom"],
                    self)

\* to_geogrid that builds the index before it gets the array
to_geogrid_indexfirst(self, b, infoErr) ==
    LET a == get_array(self, b)
        i == geogrid_index(self, infoErr)
    IN  IF i.exc # ""
        THEN i
        ELSE IF a.exc # ""
        THEN a
        ELSE [exc |-> "", ret |-> None, self |-> a.self,
              out |-> [array |-> a.ret, index |-> i.ret], crop |-> a.crop]

\* to_geogrid(path, var, bbox): out is what write_geogrid_var is handed
to_geogrid(self, b, infoErr) ==
    LET a == get_array(self, b)
        i == geogrid_index(a.self, infoErr)
    IN  IF a.exc # ""
        THEN a
        ELSE IF i.exc # ""
        THEN [i EXCEPT !.crop = a.crop]
        ELSE [exc |-> "", ret |-> None, self |-> a.self,
              out |-> [array |-> a.ret, index |-> i.ret], crop |-> a.crop]

\* to_geotiff(path, bbox): out is the file written; WriteArray rejects an
\* array larger than the nx by ny band created for it
to_geotiff(self, b) ==
    LET a == get_array(self, b)
    IN  IF a.exc # ""
        THEN a
        ELSE IF Shape(a.ret)[1] > a.self.ny \/ Shape(a.ret)[2] > a.self.nx
        THEN [Raise("ValueError", a.self) EXCEPT !.crop = a.crop]
        ELSE [exc |-> "", ret |-> None, self |-> a.self,
              out |-> [nx |-> a.self.nx, ny |-> a.self.ny, gt |-> a.self.gt,
                       array |-> a.ret],
              crop |-> a.crop]

\* close
close(self) == Return(None, [self EXCEPT !.ds = None])

(***************************************************************************)
(* The inputs                                                              *)
(***************************************************************************)
\* the magnitude of the pixel spacing
Spacing == 2

\* the +proj families a CRS can have: those of the table, and others
ProjFamilies == {"lcc", "stere", "merc", "latlong", "aea", "longlat", "utm"}

\* a gdal dataset of n columns and m rows with spacings sx and sy, whose
\* cells have the coordinates 0, Spacing, 2*Spacing, ... on each axis
Dataset(n, m, sx, sy, p) ==
    [RasterXSize  |-> n,
     RasterYSize  |-> m,
     GeoTransform |-> <<IF sx > 0 THEN 0 ELSE (1 - n) * sx, sx, 0,
                        IF sy > 0 THEN 0 ELSE (1 - m) * sy, 0, sy>>,
     proj         |-> p]

\* the spacings (dx, dy) of a north-up raster and of its flipped counterpart
Spacings == {<<Spacing, 0 - Spacing>>, <<0 - Spacing, Spacing>>}

Datasets ==
    {Dataset(n, m, s[1], s[2], "lcc") :
        n \in 1..MaxN, m \in 1..MaxN, s \in Spacings}
    \cup {Dataset(1, 1, Spacing, 0 - Spacing, p) : p \in ProjFamilies}

\* the corners of a bounding box for a raster of n cells along an axis: the
\* coordinate one spacing below the raster, the cell coordinates, and the
\* coordinate one spacing above it (up to that of cell MaxN - 1)
Corners(n) == {k * Spacing : k \in (0 - 1)..Min2(n, MaxN - 1)}

\* (lon_min, lon_max, lat_min, lat_max) for the dataset d
BBoxes(d) ==
    {<<x[1] - FalseEasting, x[2] - FalseEasting,
       y[1] - FalseNorthing, y[2] - FalseNorthing>> :
        x \in {p \in Corners(d.RasterXSize) \X Corners(d.RasterXSize) : p[1] <= p[2]},
        y \in {p \in Corners(d.RasterYSize) \X Corners(d.RasterYSize) : p[1] <= p[2]}}

\* the files: one holds a north-up raster, the other cannot be read
Paths == {"raster.tif", "missing.tif"}

\* gdal.Open(path): the dataset the file holds, None when it cannot be read
gdal_Open(path) ==
    IF path = "raster.tif"
    THEN Dataset(MaxN, MaxN, Spacing, 0 - Spacing, "merc")
    ELSE None

\* from_file(path): the object returned; the object at hand stays as it is
\* when none is made
from_file(self, path) ==
    LET d == gdal_Open(path)
    IN  IF d # None
        THEN Return(Construct(d), Construct(d))
        ELSE Return(None, self)

\* from_elements(data, crs, gt): d is the MEM dataset created from them
from_elements(d) == Return(Construct(d), Construct(d))

(***************************************************************************)
(* The state machine                                                       *)
(***************************************************************************)
\* the state after the call op ended as r
Apply(op, wb, r) ==
    /\ ds' = r.self.ds
    /\ nx' = r.self.nx
    /\ ny' = r.self.ny
    /\ gt' = r.self.gt
    /\ projstr' = r.self.projstr
    /\ projwrf' = r.self.projwrf
    /\ reproj' = r.self.reproj
    /\ resample_indxs' = r.self.resample_indxs
    /\ lastOp' = op
    /\ withBBox' = wb
    /\ exc' = r.exc
    /\ ret' = IF op \in {"to_geogrid", "to_geotiff"} THEN r.out ELSE r.ret
    /\ cropped' = IF op = "from_file" /\ r.ret # None
                  THEN None
                  ELSE IF r.crop # None THEN r.crop ELSE cropped
    /\ crops' = IF op = "from_file" /\ r.ret # None
                THEN "none"
                ELSE IF r.crop = None THEN crops
                ELSE IF crops = "none" THEN "one" ELSE "many"
    /\ prevIndex' = IF lastOp = "geogrid_index" /\ exc = "" THEN ret ELSE None
    /\ UNCHANGED bbox

Arg(wb) == IF wb THEN bbox ELSE None

Init ==
    /\ \E d \in Datasets :
         LET r == from_elements(d)
         IN  /\ bbox \in BBoxes(d)
             /\ ds = r.self.ds
             /\ nx = r.self.nx
             /\ ny = r.self.ny
             /\ gt = r.self.gt
             /\ projstr = r.self.projstr
             /\ projwrf = r.self.projwrf
             /\ reproj = r.self.reproj
             /\ resample_indxs = r.self.resample_indxs
             /\ ret = r.ret
    /\ lastOp = "from_elements"
    /\ withBBox = FALSE
    /\ exc = ""
    /\ cropped = None
    /\ crops = "none"
    /\ prevIndex = None

CallGetArray == \E wb \in BOOLEAN : Apply("get_array", wb, get_array(Self, Arg(wb)))

CallGetCoord == Apply("get_coord", FALSE, Return(get_coord(Self), Self))

CallGeogridIndex ==
    \E e \in GdalInfoNoneErrors :
        Apply("geogrid_index", FALSE, geogrid_index(Self, e))

CallToGeogrid ==
    \E wb \in BOOLEAN, e \in GdalInfoNoneErrors :
        Apply("to_geogrid", wb, to_geogrid(Self, Arg(wb), e))

CallToGeotiff ==
    \E wb \in BOOLEAN : Apply("to_geotiff", wb, to_geotiff(Self, Arg(wb)))

CallClose == Apply("close", FALSE, close(Self))

CallFromFile ==
    \E path \in Paths : Apply("from_file", FALSE, from_file(Self, path))

Next ==
    \/ CallGetArray
    \/ CallGetCoord
    \/ CallGeogridIndex
    \/ CallToGeogrid
    \/ CallToGeotiff
    \/ CallClose
    \/ CallFromFile

Spec == Init /\ [][Next]_vars

(***************************************************************************)
(* Vocabulary of the properties                                            *)
(***************************************************************************)
\* the calls that take a bbox, and the accessors
BBoxOps == {"get_array", "to_geotiff", "to_geogrid"}

Accessors == {"get_array", "get_coord", "geogrid_index", "to_geotiff", "to_geogrid"}

\* the projected corners of the bbox
XMin == ToProj(bbox[1], bbox[3])[1]

YMin == ToProj(bbox[1], bbox[3])[2]

XMax == ToProj(bbox[2], bbox[4])[1]

YMax == ToProj(bbox[2], bbox[4])[2]

\* the projected coordinates of the dataset's column c and row r (0-based)
\* under the dataset's transform
SourceX(c) == ds.GeoTransform[1] + c * ds.GeoTransform[2]

SourceY(r) == ds.GeoTransform[4] + r * ds.GeoTransform[6]

SourceXs == {SourceX(c) : c \in 0..(ds.RasterXSize - 1)}

SourceYs == {SourceY(r) : r \in 0..(ds.RasterYSize - 1)}

\* the bbox lies wholly outside the dataset's extent on some axis
BBoxOutside ==
    \/ \A x \in SourceXs : x < XMin
    \/ \A x \in SourceXs : XMax < x
    \/ \A y \in SourceYs : y < YMin
    \/ \A y \in SourceYs : YMax < y

\* the bbox encloses every cell coordinate of the dataset
BBoxSpansAll ==
    /\ \A x \in SourceXs : XMin <= x /\ x <= XMax
    /\ \A y \in SourceYs : YMin <= y /\ y <= YMax

\* the cells of a 2-D array
Cells(a) == UNION {{a[r][c] : c \in 1..Len(a[r])} : r \in 1..Len(a)}

\* the last call was given the bbox and its crop succeeded
CropDone == lastOp \in BBoxOps /\ withBBox /\ exc = ""

(***************************************************************************)
(* C1: a call given a bbox that lies wholly outside the raster's extent on *)
(* some axis ends in a BoundsError.                                        *)
(***************************************************************************)
C1_OutsideBBoxRaisesBoundsError ==
    (lastOp \in BBoxOps /\ withBBox /\ ds # None /\ BBoxOutside)
        => exc = "BoundsError"

(***************************************************************************)
(* C2: every cell of the array a crop returns is a source cell whose       *)
(* projected x lies in [x_min, x_max] and projected y in [y_min, y_max].   *)
(***************************************************************************)
C2_CroppedCellsInsideBBox ==
    CropDone =>
        \A v \in Cells(cropped) :
            /\ XMin <= SourceX(v[2]) /\ SourceX(v[2]) <= XMax
            /\ YMin <= SourceY(v[1]) /\ SourceY(v[1]) <= YMax

(***************************************************************************)
(* C3: a crop of a raster as constructed to a bbox that spans the entire   *)
(* raster is a no-op: it returns the full source array and leaves nx, ny   *)
(* and the geotransform as they were.                                      *)
(***************************************************************************)
C3_FullSpanCropIsNoOp ==
    [][(/\ lastOp' \in BBoxOps
        /\ withBBox'
        /\ ds # None
        /\ resample_indxs = None
        /\ BBoxSpansAll)
          => (/\ exc' = ""
              /\ cropped' = ReadAsArray(ds)
              /\ nx' = nx
              /\ ny' = ny
              /\ gt' = gt)]_vars

(***************************************************************************)
(* C4: once a crop has succeeded, get_array() without a bbox returns the   *)
(* array the crop returned, and get_coord() returns grids of shape         *)
(* (ny, nx) that hold the coordinates of the cells of that array.          *)
(***************************************************************************)
C4_CachedWindowHonoured ==
    (cropped # None /\ ds # None) =>
        /\ (lastOp = "get_array" /\ ~withBBox) => (exc = "" /\ ret = cropped)
        /\ lastOp = "get_coord" =>
              /\ Shape(ret.X) = <<ny, nx>>
              /\ Shape(ret.Y) = <<ny, nx>>
              /\ Shape(cropped) = <<ny, nx>>
              /\ \A r \in 1..ny, c \in 1..nx :
                    /\ ret.X[r][c] = SourceX(cropped[r][c][2])
                    /\ ret.Y[r][c] = SourceY(cropped[r][c][1])

(***************************************************************************)
(* C5: the anchor of geogrid_index is the same ground point before and     *)
(* after a crop whose bbox contains the raster's centre cell.              *)
(***************************************************************************)
\* the columns (rows) at the centre of an axis of n cells
CentreCells(n) == {k \in 0..(n - 1) : 2 * k \in {n - 2, n - 1, n}}

\* v and v + d both lie in [lo, hi]
FootprintIn(v, d, lo, hi) ==
    /\ lo <= v /\ v <= hi
    /\ lo <= v + d /\ v + d <= hi

\* the bbox contains the footprint of each centre cell of a raster of n by m
\* cells with transform g
CentreInBBox(g, n, m) ==
    /\ \A c \in CentreCells(n) : FootprintIn(g[1] + c * g[2], g[2], XMin, XMax)
    /\ \A r \in CentreCells(m) : FootprintIn(g[4] + r * g[6], g[6], YMin, YMax)

\* to_geogrid cropped a raster as constructed, right after geogrid_index
\* returned its anchor, to a bbox that contains the centre cells
CropAfterIndex ==
    /\ lastOp = "to_geogrid"
    /\ withBBox
    /\ exc = ""
    /\ crops = "one"
    /\ prevIndex # None
    /\ CentreInBBox(ds.GeoTransform, ds.RasterXSize, ds.RasterYSize)

C5_AnchorSameAfterCrop ==
    CropAfterIndex =>
        /\ ret.index.known_lon2 = prevIndex.known_lon2
        /\ ret.index.known_lat2 = prevIndex.known_lat2

\* C5 as amended: the anchor that to_geogrid hands on after a crop is the
\* centre of the cropped grid: the updated transform applied to half the
\* updated dimensions (doubled: 2*gt[0] + nx*dx and 2*gt[3] + ny*dy), taken
\* to lon/lat, with known_x = (nx+1)/2 and known_y = (ny+1)/2 of the updated
\* dimensions
C5_AnchorIsCentreOfCroppedGrid ==
    (lastOp = "to_geogrid" /\ withBBox /\ exc = "") =>
        /\ ret.index.known_x2 = nx + 1
        /\ ret.index.known_y2 = ny + 1
        /\ ret.index.known_lon2 = 2 * gt[1] + nx * gt[2] - 2 * FalseEasting
        /\ ret.index.known_lat2 = 2 * gt[4] + ny * gt[6] - 2 * FalseNorthing

\* the columns whose coordinate lies in the bbox are not centred on the
\* raster's centre: the centre of those cells is another ground point
ColumnsOffCentre ==
    LET sel == {c \in 0..(ds.RasterXSize - 1) :
                   XMin <= SourceX(c) /\ SourceX(c) <= XMax}
    IN  sel # {} /\ SetMin(sel) + SetMax(sel) # ds.RasterXSize - 1

C5_Witness ==
    /\ CropAfterIndex
    /\ ColumnsOffCentre
    /\ ret.index.known_lon2 # prevIndex.known_lon2
    /\ ret.index.known_lon2 = 2 * gt[1] + nx * gt[2] - 2 * FalseEasting

(***************************************************************************)
(* C6: close may be called any number of times, and on a closed raster     *)
(* every accessor ends in a closed-resource error.                         *)
(***************************************************************************)
C6_ClosedRaisesClosedError ==
    /\ lastOp = "close" => (exc = "" /\ ds = None)
    /\ (ds = None /\ lastOp \in Accessors) => exc = "ClosedError"

(***************************************************************************)
(* C7: from_file never returns None: it returns a raster or raises an      *)
(* OpenError.                                                              *)
(***************************************************************************)
C7_FromFileNeverReturnsNone ==
    lastOp = "from_file" => (exc = "OpenError" \/ (exc = "" /\ ret # None))

(***************************************************************************)
(* C8: at construction a family of the table gives its mapped tag (for     *)
(* stere the later entry of the dict, polar_wgs84) and the flag false, any *)
(* other family gives lambert and the flag true; the dimensions, the       *)
(* geotransform and the dataset are those that were given.                 *)
(***************************************************************************)
C8_ProjectionLookupTotal ==
    (lastOp \in {"from_elements", "from_file"} /\ ret # None) =>
        /\ projstr = ds.proj
        /\ IF projstr \in {"lcc", "stere", "merc", "latlong", "aea"}
           THEN /\ <<projstr, projwrf>> \in
                      {<<"lcc", "lambert">>, <<"stere", "polar_wgs84">>,
                       <<"merc", "mercator">>, <<"latlong", "regular_ll">>,
                       <<"aea", "albers_nad83">>}
                /\ reproj = FALSE
           ELSE /\ projwrf = "lambert"
                /\ reproj = TRUE
        /\ ds \in Datasets \cup {gdal_Open("raster.tif")}
        /\ nx = ds.RasterXSize
        /\ ny = ds.RasterYSize
        /\ gt = ds.GeoTransform
        /\ resample_indxs = None

C8_Witness ==
    /\ lastOp = "from_elements"
    /\ projstr = "longlat"
    /\ projwrf = "lambert"
    /\ reproj = TRUE

====
